---- MODULE Spec2Model ----
(***************************************************************************)
(* State-machine model of the collision handlers, timers and level         *)
(* transitions of "Assignment 3/spritesheets/app.py" (MarioApp, Switch,     *)
(* BounceBlock, Star, MushroomMob).                                         *)
(*                                                                         *)
(* One action stands for one callback of the application: a begin-contact  *)
(* handler, a key binding, a menu command, or the poll done by step().     *)
(* The wall clock read by time.time() is the variable now; it is advanced  *)
(* by the environment between callbacks.                                    *)
(*                                                                         *)
(* The handlers are written as operators from a state record to a state    *)
(* record, statement by statement, so that a handler that calls another    *)
(* method (retry -> reset_level -> reset_world) is one action.             *)
(***************************************************************************)
EXTENDS Integers, Sequences, FiniteSets, TLC

\* ---------------------------------------------------------------- bounds
\* the wall clock is not advanced past MaxTime seconds
MaxTime == 12
\* coins are not collected past this score
MaxScore == 2
\* the high-score file is not grown past this number of lines
MaxLines == 2
\* a line of an arbitrary configuration file has at most this many characters
MaxLineLen == 3
\* an arbitrary configuration file has at most this many lines
MaxCfgLines == 2

\* ------------------------------------------------------ program constants
max_health == 20
SwitchCooldown == 10
InvincibleWindow == 10
MushroomTempo == 45
BounceTempo == 35
FireballDamage == 3
MushroomDamage == 1

Dirs == {"A", "B", "L", "R"}
Lateral == {"L", "R"}

\* the levels a configuration or a file dialog can name
Levels == {"level1.txt", "level2.txt", "bonus.txt"}
GoalLevel == "level2.txt"

\* what simpledialog.askstring returns: a name, or None when cancelled
NoName == "<None>"
Names == {"Ann"}

\* the file the flagpole handler appends to
ScoreFile == "Highscores.txt"

\* the file the high-score window reads
ViewFile == "highscores.txt"

\* --------------------------------------------------- the world of a level
\* Entities that load_world builds. Every level is given the same content:
\* two mushrooms, one slot for a fireball (fireballs are not placed by a
\* level file, MOBS has no symbol for them: they enter the world later),
\* a coin and two stars, and one block of each kind the handlers test for.
MobIds == {1, 2, 3}
MobKind == <<"mushroom", "mushroom", "fireball">>
ItemIds == {1, 2, 3}
ItemKind == <<"coin", "star", "star">>
Blocks == {"brick", "cube", "switch", "bouncyboi", "flagpole", "tunnel"}

\* tempo a Fireball is constructed with (game/mob.py): not fixed by app.py
FireballTempos == {-50, 50}

FreshMobs ==
    [m \in MobIds |->
        IF MobKind[m] = "mushroom"
        THEN [id |-> "mushroom", tempo |-> MushroomTempo, alive |-> TRUE]
        ELSE [id |-> "fireball", tempo |-> 50, alive |-> FALSE]]

VARIABLES
    now,                 \* time.time(), in seconds
    _active,             \* Switch._active of the world's switch
    start,               \* Switch.start
    _player_invincible,  \* MarioApp._player_invincible
    _start_invincible,   \* MarioApp._start_invincible (-1: not yet set)
    health,              \* Player._health
    score,               \* Player._score
    velocity,            \* the player's velocity <<vx, vy>>
    jumping,             \* Player._jumping
    is_ducking,          \* MarioApp.is_ducking ("unset" until a key press)
    mobs,                \* mob -> [id, tempo, alive]
    items,               \* the items in the world
    blocks,              \* the blocks in the world
    current_level,       \* MarioApp.current_level
    world_level,         \* the level file self._world was loaded from
    handlers,            \* the category pairs self._world has handlers for
    files,               \* file name -> file content (a string)
    app,                 \* "starting", "running", "quit" after master.destroy()
    cfg,                 \* read_config_file: the file, the loop, the dictionary
    evt                  \* the callback that ran last and what it did

vars == <<now, _active, start, _player_invincible, _start_invincible, health,
          score, velocity, jumping, is_ducking, mobs, items, blocks,
          current_level, world_level, handlers, files, app, cfg, evt>>

\* the state as one record, and the step that installs a record
St ==
    [now |-> now, _active |-> _active, start |-> start,
     _player_invincible |-> _player_invincible,
     _start_invincible |-> _start_invincible, health |-> health,
     score |-> score, velocity |-> velocity, jumping |-> jumping,
     is_ducking |-> is_ducking, mobs |-> mobs, items |-> items,
     blocks |-> blocks, current_level |-> current_level,
     world_level |-> world_level, handlers |-> handlers, files |-> files,
     app |-> app, cfg |-> cfg, evt |-> evt]

Become(t) ==
    /\ now' = t.now
    /\ _active' = t._active
    /\ start' = t.start
    /\ _player_invincible' = t._player_invincible
    /\ _start_invincible' = t._start_invincible
    /\ health' = t.health
    /\ score' = t.score
    /\ velocity' = t.velocity
    /\ jumping' = t.jumping
    /\ is_ducking' = t.is_ducking
    /\ mobs' = t.mobs
    /\ items' = t.items
    /\ blocks' = t.blocks
    /\ current_level' = t.current_level
    /\ world_level' = t.world_level
    /\ handlers' = t.handlers
    /\ files' = t.files
    /\ app' = t.app
    /\ cfg' = t.cfg
    /\ evt' = t.evt

\* What the last callback was and did. op: the callback; blk, d, d2, m, m2,
\* it, name, ans: its inputs (block, directions reported by
\* get_collision_direction, mobs, item, dialog answers); inv: the
\* invincibility flag when the callback began; dmg: the health
\* taken by change_health; hit: the health right after it; asked: the
\* retry dialog was shown; rebuilt: reset_world ran; raised: the callback
\* ended in an exception; ret: the handler's return value; shown: the
\* lines the high-score window displays; late: the callback operated on an
\* entity it had already removed from the world.
NoEvt ==
    [op |-> "init", blk |-> "-", d |-> "-", d2 |-> "-", m |-> 0, m2 |-> 0,
     it |-> 0, name |-> "-", ans |-> "-", inv |-> FALSE, dmg |-> 0,
     hit |-> -1, asked |-> FALSE, rebuilt |-> FALSE, raised |-> FALSE,
     ret |-> "-", shown |-> <<>>, late |-> FALSE]

Event(s, e) == [s EXCEPT !.evt = e]

\* ------------------------------------------------------------ collaborators
\* Methods of Player, Mob and World that app.py calls (player.py, game/).

\* Player.change_health: health is kept within [0, max_health]
change_health(s, change) ==
    LET h == s.health + change
        c == IF h < 0 THEN 0 ELSE IF h > max_health THEN max_health ELSE h
    IN  [s EXCEPT !.health = c, !.evt.dmg = s.health - c, !.evt.hit = c]

\* Coin.collect: a coin adds its value to the score
change_score(s, change) == [s EXCEPT !.score = @ + change]

set_velocity(s, v) == [s EXCEPT !.velocity = v]

set_jumping(s, j) == [s EXCEPT !.jumping = j]

\* an operation on mob m (a removal, a direction query, a change of tempo):
\* it is noted when the world no longer holds the mob
UseMob(s, m) == IF s.mobs[m].alive THEN s ELSE [s EXCEPT !.evt.late = TRUE]

\* an operation on block b, noted when the world no longer holds the block
UseBlock(s, b) == IF b \in s.blocks THEN s ELSE [s EXCEPT !.evt.late = TRUE]

set_tempo(s, m, t) == [UseMob(s, m) EXCEPT !.mobs[m].tempo = t]

remove_mob(s, m) == [UseMob(s, m) EXCEPT !.mobs[m].alive = FALSE]

\* Mob.on_hit: the mobs of this game do nothing of their own on a hit
Mob_on_hit(s, m) == s

remove_block(s, b) == [s EXCEPT !.blocks = @ \ {b}]

remove_item(s, i) == [s EXCEPT !.items = @ \ {i}]

\* load_world + add_player: a new world with the level's entities, a new
\* Switch (constructed active, start = time.time()), a new player body, and
\* no collision handler yet
load_world(s, level) ==
    [s EXCEPT !.mobs = FreshMobs, !.items = ItemIds, !.blocks = Blocks,
              !._active = TRUE, !.start = s.now,
              !.velocity = <<0, 0>>, !.world_level = level,
              !.handlers = {}]

\* ----------------------------------------------------------- configuration
\* A line of the configuration file is a sequence of characters. "=", ":"
\* and " " are themselves; any other element stands for a run of characters
\* holding none of the three (a word, a number, a file name).
Chars == {"=", ":", " ", "k"}

\* the lines an arbitrary file is made of
Lines == UNION {[1..n -> Chars] : n \in 0..MaxLineLen}

\* heading = None
NoHeading == <<"<None>">>

\* {} and d[k] = v of a dictionary
EmptyDict == <<>>

Put(d, k, v) == [x \in DOMAIN d \cup {k} |-> IF x = k THEN v ELSE d[x]]

RECURSIVE lstrip(_)
lstrip(l) == IF l # <<>> /\ Head(l) = " " THEN lstrip(Tail(l)) ELSE l

RECURSIVE rstrip(_)
rstrip(l) ==
    IF l # <<>> /\ l[Len(l)] = " " THEN rstrip(SubSeq(l, 1, Len(l) - 1)) ELSE l

\* str.strip
strip(l) == rstrip(lstrip(l))

\* str.startswith, str.endswith, str.count of one character
startswith(l, c) == l # <<>> /\ l[1] = c

endswith(l, c) == l # <<>> /\ l[Len(l)] = c

count(l, c) == Cardinality({i \in 1..Len(l) : l[i] = c})

\* str.split of a line that holds c once
split(l, c) ==
    LET i == CHOOSE j \in 1..Len(l) : l[j] = c
    IN  <<SubSeq(l, 1, i - 1), SubSeq(l, i + 1, Len(l))>>

\* a heading that keeps the whole header line
Slice_whole(l) == l

\* line[1:-1], line 80
Slice(l) == SubSeq(l, 2, Len(l) - 1)

\* what __init__ reads from the configuration (nothing yet)
NoGot == [gravity |-> <<"-">>, start |-> <<"-">>, character |-> <<"-">>,
          x |-> <<"-">>, y |-> <<"-">>]

\* read_config_file, lines 70-74: the file is open, nothing is read.
\* file names the file chosen in the dialog, level the level it names.
NewCfg(file, level) ==
    [phase |-> "reading", file |-> file, level |-> level, pos |-> 0,
     config |-> EmptyDict, heading |-> NoHeading, line |-> <<>>,
     got |-> NoGot]

\* read_config_file, lines 76-90: one turn of the loop
read_line(c, raw) ==
    LET line == strip(raw)
        c1 == [c EXCEPT !.pos = @ + 1, !.line = line]
    IN  IF startswith(line, "=") /\ endswith(line, "=")
        THEN [c1 EXCEPT !.heading = Slice(line),
                        !.config = Put(c.config, Slice(line), EmptyDict)]
        ELSE IF count(line, ":") = 1 /\ c.heading # NoHeading
        THEN LET p == split(line, ":")
             IN  [c1 EXCEPT !.config =
                     Put(c.config, c.heading,
                         Put(c.config[c.heading], strip(p[1]), strip(p[2])))]
        ELSE c1

RECURSIVE read_lines(_, _)
read_lines(c, lines) ==
    IF lines = <<>> THEN c
    ELSE read_lines(read_line(c, Head(lines)), Tail(lines))

\* a header line with n "=" on each side of the section name
Header(n, name) ==
    [i \in 1..(2 * n + 1) |-> IF i = n + 1 THEN name ELSE "="]

KeyValue(key, value) == <<key, " ", ":", " ", value>>

\* a configuration file with the sections World and Player
ConfigFile(n, level) ==
    << Header(n, "World"),
       KeyValue("gravity", "400"),
       KeyValue("start", level),
       <<>>,
       Header(n, "Player"),
       KeyValue("character", "mario"),
       KeyValue("x", "30"),
       KeyValue("y", "30") >>

\* the configuration files: "any" is made of arbitrary lines, "single" has
\* the headers =World= and =Player=, "double" has ==World== and ==Player==
FileLines(c) ==
    IF c.file = "single" THEN ConfigFile(1, c.level)
    ELSE ConfigFile(2, c.level)

\* the keys __init__ subscripts the configuration with, lines 356-361
WorldKey == <<"=", "World", "=">>

PlayerKey == <<"=", "Player", "=">>

HasKeys(config) ==
    /\ WorldKey \in DOMAIN config
    /\ {<<"gravity">>, <<"start">>} \subseteq DOMAIN config[WorldKey]
    /\ PlayerKey \in DOMAIN config
    /\ {<<"character">>, <<"x">>, <<"y">>} \subseteq DOMAIN config[PlayerKey]

Lookup(config) ==
    [gravity |-> config[WorldKey][<<"gravity">>],
     start |-> config[WorldKey][<<"start">>],
     character |-> config[PlayerKey][<<"character">>],
     x |-> config[PlayerKey][<<"x">>],
     y |-> config[PlayerKey][<<"y">>]]

\* the configuration of a game that has started from the file "double"
Started(level) ==
    LET c == read_lines(NewCfg("double", level), ConfigFile(2, level))
    IN  [c EXCEPT !.phase = "started", !.got = Lookup(c.config)]

\* ------------------------------------------------------------------ Switch
\* Switch.on_hit, line 246: only a hit from above presses the switch
SwitchPressedBy(d) == d = "A"

\* a press that restarts the cooldown of a switch that is already pressed
Switch_on_hit_restart(s, d) ==
    IF ~SwitchPressedBy(d) THEN s
    ELSE [s EXCEPT !._active = FALSE, !.start = s.now]

Switch_on_hit(s, d) ==
    IF ~SwitchPressedBy(d) THEN s
    ELSE IF s._active
         THEN [s EXCEPT !._active = FALSE, !.start = s.now]
         ELSE s

\* a poll that reactivates the switch at the tenth second only
CooldownOver_exact(t, since) == t - since = SwitchCooldown

\* Switch.check_time, line 280
CooldownOver(t, since) == t - since >= SwitchCooldown

check_time(s) ==
    IF s._active = FALSE /\ CooldownOver(s.now, s.start)
    THEN [s EXCEPT !._active = TRUE]
    ELSE s

\* ------------------------------------------------------------ BounceBlock
\* a bounce that adds its impulse to the velocity the player arrives with
BounceBlock_on_hit_add(s, d) ==
    IF d # "A" THEN s
    ELSE set_velocity(s, <<s.velocity[1], s.velocity[2] - 200>>)

\* BounceBlock.on_hit, lines 919-922
BounceBlock_on_hit(s, d) ==
    IF d # "A" THEN s ELSE set_velocity(s, <<0, -200>>)

\* ---------------------------------------------------------- invincibility
\* Star.collect called with the application as self (line 681)
Star_collect(s) == [s EXCEPT !._player_invincible = TRUE]

\* a timer that is started by the first star only
player_invincible_once(s) ==
    IF s._start_invincible = -1 THEN [s EXCEPT !._start_invincible = s.now]
    ELSE s

\* MarioApp.player_invincible: both assignments store time.time()
player_invincible(s) == [s EXCEPT !._start_invincible = s.now]

\* MarioApp.check_invincible, line 431
WindowOver(t, since) == t - since >= InvincibleWindow

check_invincible(s) ==
    IF s._player_invincible = TRUE /\ WindowOver(s.now, s._start_invincible)
    THEN [s EXCEPT !._player_invincible = FALSE]
    ELSE s

\* ------------------------------------------------------- level transitions
\* the six pairs of categories of _setup_collision_handlers
HandlerPairs ==
    {<<"player", "item">>, <<"player", "block">>, <<"player", "mob">>,
     <<"mob", "block">>, <<"mob", "mob">>, <<"mob", "item">>}

\* a registration that leaves out the pairs between mobs and the rest
_setup_collision_handlers_player(s) ==
    [s EXCEPT !.handlers = @ \cup {p \in HandlerPairs : p[1] = "player"}]

\* MarioApp._setup_collision_handlers: registers on the present world
_setup_collision_handlers(s) == [s EXCEPT !.handlers = @ \cup HandlerPairs]

\* a rebuild that ends the player's invincibility
reset_world_mortal(s, new_level) ==
    [load_world(s, new_level) EXCEPT !.handlers = HandlerPairs, !.score = 0,
                                     !.evt.rebuilt = TRUE,
                                     !._player_invincible = FALSE]

\* a rebuild that leaves the player's score as it is
reset_world_keepscore(s, new_level) ==
    [_setup_collision_handlers(load_world(s, new_level))
        EXCEPT !.evt.rebuilt = TRUE]

\* MarioApp.reset_world; Player.reset_score sets the score to 0
reset_world(s, new_level) ==
    [_setup_collision_handlers(load_world(s, new_level))
        EXCEPT !.score = 0, !.evt.rebuilt = TRUE]

reset_level(s) ==
    [reset_world(s, s.current_level) EXCEPT !.health = max_health]

quit(s) == [s EXCEPT !.app = "quit"]

\* a dialog that is also shown for the last point of health
PlayerIsDead_early(h) == h <= 1

\* MarioApp.retry, line 478: the dialog is shown when health is 0.0
PlayerIsDead(h) == h = 0

retry(s, ans) ==
    IF PlayerIsDead(s.health)
    THEN LET q == [s EXCEPT !.evt.asked = TRUE, !.evt.ans = ans]
         IN  IF ans = "yes" THEN reset_level(q)
             ELSE IF ans = "no" THEN quit(q)
             ELSE q
    ELSE s

\* --------------------------------------------------------- contact handlers
\* a Left contact that sends the mob right and a Right contact left
MobBlockTempo_swapped(d, tempo) ==
    LET t1 == IF d = "L" THEN BounceTempo ELSE tempo
    IN  IF d = "R" THEN -BounceTempo ELSE t1

\* _handle_mob_collide_block, lines 620-624: the tempo a mob is given
MobBlockTempo(d, tempo) ==
    LET t1 == IF d = "L" THEN -BounceTempo ELSE tempo
    IN  IF d = "R" THEN BounceTempo ELSE t1

\* a fireball that breaks whatever block it meets
FireballBreaks_any(b) == TRUE

\* line 614: the block a fireball takes with it
FireballBreaks(b) == b = "brick"

\* d is get_collision_direction(mob, block)
_handle_mob_collide_block(s, m, b, d) ==
    LET s1 == IF s.mobs[m].id = "fireball"
              THEN remove_mob(IF FireballBreaks(b) THEN remove_block(s, b)
                              ELSE s, m)
              ELSE s
        q  == UseBlock(UseMob(s1, m), b)      \* lines 620, 623: the queries
        s2 == IF d \in Lateral
              THEN set_tempo(q, m, MobBlockTempo(d, q.mobs[m].tempo))
              ELSE q
    IN  [s2 EXCEPT !.evt.ret = "True"]

_handle_mob_collide_item(s) == [s EXCEPT !.evt.ret = "False"]

\* a contact that turns the mob back whatever side it is met on
MobMobTempo_reverse(d, tempo) ==
    IF d \in Lateral
    THEN (IF tempo > 0 THEN -BounceTempo ELSE BounceTempo)
    ELSE tempo

\* _handle_mob_collide_mob, lines 641-651: the tempo given to the mob whose
\* direction towards the other one is d
MobMobTempo(d, tempo) ==
    LET t1 == IF d = "L" THEN -BounceTempo ELSE tempo
    IN  IF d = "R" THEN BounceTempo ELSE t1

\* d12 is get_collision_direction(mob1, mob2), d21 the converse
_handle_mob_collide_mob(s, m1, m2, d12, d21) ==
    LET s1 == IF s.mobs[m1].id = "fireball" \/ s.mobs[m2].id = "fireball"
              THEN remove_mob(remove_mob(s, m1), m2)
              ELSE s
        s2 == IF s1.mobs[m1].id = "mushroom" \/ s1.mobs[m2].id = "mushroom"
              THEN LET q == UseMob(UseMob(s1, m1), m2)   \* the queries
                       a == IF d12 \in Lateral
                            THEN set_tempo(q, m1,
                                           MobMobTempo(d12, q.mobs[m1].tempo))
                            ELSE q
                   IN  IF d21 \in Lateral
                       THEN set_tempo(a, m2, MobMobTempo(d21, a.mobs[m2].tempo))
                       ELSE a
              ELSE s1
    IN  [s2 EXCEPT !.evt.ret = "False"]

\* _handle_player_collide_item
_handle_player_collide_item(s, i) ==
    LET s1 == IF ItemKind[i] = "coin" THEN change_score(s, 1) ELSE s
        s2 == remove_item(s1, i)
        s3 == IF ItemKind[i] = "star"
              THEN player_invincible(Star_collect(s2))
              ELSE s2
    IN  [s3 EXCEPT !.evt.ret = "False"]

\* line 712: the contact that restores the player's health at the flagpole
FlagRestoresHealth(d) == d = "A"

\* a flagpole that counts only when it is met from above
FlagAdvances_above(d) == d = "A"

\* line 711: the contact that writes the high score and loads the next level
FlagAdvances(d) == TRUE

\* line 719
ScoreEntry(name, sc) == name \o "  Score: " \o ToString(sc) \o " "

\* lines 716-720: the file is opened for appending and one line is written
AppendLine(s, line) == [s EXCEPT !.files[ScoreFile] = Append(@, line)]

\* lines 711-724; name is the answer of the name dialog
FlagpoleContact(s, d, name) ==
    LET s1 == IF FlagRestoresHealth(d)
              THEN [s EXCEPT !.health = max_health] ELSE s
    IN  IF ~FlagAdvances(d) THEN s1
        ELSE IF name = NoName
        THEN [s1 EXCEPT !.evt.raised = TRUE]    \* None + str: TypeError
        ELSE LET s2 == AppendLine(s1, ScoreEntry(name, s1.score) \o "\n")
                 s3 == [s2 EXCEPT !.current_level = GoalLevel]
             IN  reset_world(s3, s3.current_level)

\* lines 727-730
TunnelContact(s, d) ==
    IF s.is_ducking = "unset"
    THEN [s EXCEPT !.evt.raised = TRUE]   \* AttributeError: no is_ducking
    ELSE IF s.is_ducking = "True" /\ d = "A"
         THEN reset_world(s, GoalLevel)
         ELSE s

\* d is get_collision_direction(player, block)
_handle_player_collide_block(s, b, d, name) ==
    LET s1 == IF b = "switch" THEN Switch_on_hit(s, d)
              ELSE IF b = "bouncyboi" THEN BounceBlock_on_hit(s, d)
              ELSE s
        s2 == IF d = "A" THEN set_jumping(s1, FALSE) ELSE s1
        s3 == IF b = "flagpole" THEN FlagpoleContact(s2, d, name) ELSE s2
        s4 == IF s3.evt.raised THEN s3
              ELSE IF b = "tunnel" THEN TunnelContact(s3, d) ELSE s3
    IN  IF s4.evt.raised THEN s4 ELSE [s4 EXCEPT !.evt.ret = "True"]

\* lines 766 and 772: the tempo given to a mushroom the player ran into
PlayerHitTempo(d) == IF d = "L" THEN -BounceTempo ELSE -BounceTempo

\* lines 765 and 771: the player is thrown back to the side he came from
KnockBack(d) == IF d = "L" THEN <<-100, 0>> ELSE <<100, 0>>

\* line 775
StompVelocity == <<0, -100>>

\* damage taken whether or not the player is invincible
TakesDamage_always(invincible) == TRUE

\* lines 754, 763, 769: damage is taken only while not invincible
TakesDamage(invincible) == invincible = FALSE

\* a stomp that is skipped once the invincible player has removed the mob
MushroomContact_nostomp(s, m, d) ==
    IF s._player_invincible = TRUE THEN remove_mob(s, m)
    ELSE IF d \in Lateral
    THEN set_tempo(
             set_velocity(change_health(s, -MushroomDamage), KnockBack(d)),
             m, PlayerHitTempo(d))
    ELSE IF d = "A"
    THEN remove_mob(set_velocity(s, StompVelocity), m)
    ELSE s

\* lines 757-776
MushroomContact(s, m, d) ==
    LET s0 == IF s._player_invincible = TRUE THEN remove_mob(s, m) ELSE s
        s1 == UseMob(s0, m)                   \* line 762: the query
    IN  IF d \in Lateral
        THEN IF TakesDamage(s1._player_invincible)
             THEN set_tempo(
                      set_velocity(change_health(s1, -MushroomDamage),
                                   KnockBack(d)),
                      m, PlayerHitTempo(d))
             ELSE s1
        ELSE IF d = "A"
        THEN remove_mob(set_velocity(s1, StompVelocity), m)
        ELSE s1

\* d is get_collision_direction(player, mob), ans the answer to the dialog
_handle_player_collide_mob(s, m, d, ans) ==
    LET s0 == Mob_on_hit(s, m)
        s1 == IF s0.mobs[m].id = "fireball" /\ TakesDamage(s0._player_invincible)
              THEN change_health(s0, -FireballDamage)
              ELSE s0
        s2 == IF s1.mobs[m].id = "mushroom" THEN MushroomContact(s1, m, d)
              ELSE s1
        s3 == retry(s2, ans)
    IN  [s3 EXCEPT !.evt.ret = "True"]

\* line 494, open('highscores.txt', 'r'): the file that is opened. The name
\* differs from ScoreFile in the case of its first letter; fold says whether
\* the file system takes names that differ only in case for one file.
OpenForView(fold) == IF fold THEN ScoreFile ELSE ViewFile

\* MarioApp.highscores: a missing file is a FileNotFoundError
highscores(s, fold) ==
    LET f == OpenForView(fold)
    IN  IF f \notin DOMAIN s.files
        THEN [s EXCEPT !.evt.raised = TRUE]
        ELSE [s EXCEPT !.evt.shown = s.files[f]]

\* ------------------------------------------------------------- key bindings
MoveVelocity(key) ==
    IF key = "d" THEN <<500, 10>>
    ELSE IF key = "Right" THEN <<75, 10>>
    ELSE <<-75, 10>>

_move(s, key) == [set_velocity(s, MoveVelocity(key)) EXCEPT !.is_ducking = "False"]

\* a jump that is taken whether or not the player is already jumping
_jump_always(s) ==
    [set_jumping(set_velocity(s, <<0, -210>>), TRUE) EXCEPT !.is_ducking = "False"]

\* MarioApp._jump
_jump(s) ==
    LET s1 == IF s.jumping = FALSE
              THEN set_jumping(set_velocity(s, <<0, -210>>), TRUE)
              ELSE s
    IN  [s1 EXCEPT !.is_ducking = "False"]

_duck(s) == [set_velocity(s, <<0, 150>>) EXCEPT !.is_ducking = "True"]

\* ------------------------------------------------------------------- step
\* MarioApp.step: world.step steps every entity (Switch.step -> check_time)
\* and the physics, then the application polls the invincibility window
step(s) == check_invincible(check_time(s))

load_level(s, file) == reset_world([s EXCEPT !.current_level = file], file)

\* MarioApp.__init__ after read_config_file has returned, lines 351-373:
\* a subscript with a key the dictionary does not hold is a KeyError
MarioApp_init(s) ==
    IF ~HasKeys(s.cfg.config)
    THEN [s EXCEPT !.cfg.phase = "failed", !.evt.raised = TRUE]
    ELSE LET got == Lookup(s.cfg.config)
             s1 == [s EXCEPT !.cfg.phase = "started", !.cfg.got = got,
                             !.current_level = got.start[1],
                             !.app = "running"]
         IN  [reset_world(s1, s1.current_level)
                 EXCEPT !._player_invincible = FALSE, !.evt.rebuilt = FALSE]

\* ---------------------------------------------------------------- actions
Running == app = "running"

Begin(e) == Event(St, [e EXCEPT !.inv = _player_invincible])

\* the wall clock advances between two callbacks, by one of the steps of D
ClockAdvanceBy(D) ==
    \E dt \in D :
        /\ Running
        /\ now + dt <= MaxTime
        /\ Become([Begin([NoEvt EXCEPT !.op = "clock"]) EXCEPT !.now = now + dt])

ClockAdvance == ClockAdvanceBy({1, 2, 5})

\* MarioApp.step, run every 10 ms by master.after
Tick ==
    /\ Running
    /\ Become(step(Begin([NoEvt EXCEPT !.op = "step"])))

\* a fireball enters the world (dropped by a cloud, game/mob.py)
SpawnFireball ==
    \E m \in MobIds, t \in FireballTempos :
        /\ Running
        /\ mobs[m].id = "fireball" /\ ~mobs[m].alive
        /\ Become([Begin([NoEvt EXCEPT !.op = "spawn", !.m = m])
                      EXCEPT !.mobs[m] = [id |-> "fireball", tempo |-> t,
                                          alive |-> TRUE]])

\* a mystery block drops a coin into the world (game/block.py)
DropCoin ==
    \E i \in ItemIds \ items :
        /\ Running
        /\ ItemKind[i] = "coin"
        /\ Become([Begin([NoEvt EXCEPT !.op = "drop", !.it = i])
                      EXCEPT !.items = @ \cup {i}])

\* a player-item contact with one of the items of I
PlayerCollideItemIn(I) ==
    \E i \in I \cap items :
        /\ Running
        /\ <<"player", "item">> \in handlers
        /\ ItemKind[i] = "coin" => score < MaxScore
        /\ Become(_handle_player_collide_item(
                      Begin([NoEvt EXCEPT !.op = "player_item", !.it = i]), i))

\* a player-block contact with one of the blocks of B
PlayerCollideBlockIn(B) ==
    \E b \in B \cap blocks, d \in Dirs, name \in Names \cup {NoName} :
        /\ Running
        /\ <<"player", "block">> \in handlers
        /\ b # "flagpole" => name = NoName
        /\ (b = "flagpole" /\ name # NoName) => Len(files[ScoreFile]) < MaxLines
        /\ Become(_handle_player_collide_block(
                      Begin([NoEvt EXCEPT !.op = "player_block", !.blk = b,
                                          !.d = d,
                                          !.name = IF b = "flagpole" THEN name
                                                   ELSE "-"]),
                      b, d, name))

PlayerCollideItem == PlayerCollideItemIn(ItemIds)

PlayerCollideStar == PlayerCollideItemIn({i \in ItemIds : ItemKind[i] = "star"})

PlayerCollideCoin == PlayerCollideItemIn({i \in ItemIds : ItemKind[i] = "coin"})

PlayerCollideBlock == PlayerCollideBlockIn(Blocks)

PlayerCollideFlagpole == PlayerCollideBlockIn({"flagpole"})

PlayerCollideSwitch == PlayerCollideBlockIn({"switch"})

\* a player-mob contact with one of the mobs of M
PlayerCollideMobIn(M) ==
    \E m \in M, d \in Dirs, ans \in {"yes", "no"} :
        /\ Running
        /\ <<"player", "mob">> \in handlers
        /\ mobs[m].alive
        /\ Become(_handle_player_collide_mob(
                      Begin([NoEvt EXCEPT !.op = "player_mob", !.m = m, !.d = d]),
                      m, d, ans))

PlayerCollideMob == PlayerCollideMobIn(MobIds)

\* contacts of the player with the first mushroom
PlayerCollideMushroom == PlayerCollideMobIn({1})

\* a contact of one of the mobs of M with one of the blocks of B
MobCollideBlockIn(M, B) ==
    \E m \in M, b \in B \cap blocks, d \in Dirs :
        /\ Running
        /\ <<"mob", "block">> \in handlers
        /\ mobs[m].alive
        /\ Become(_handle_mob_collide_block(
                      Begin([NoEvt EXCEPT !.op = "mob_block", !.m = m,
                                          !.blk = b, !.d = d]),
                      m, b, d))

MobCollideBlock == MobCollideBlockIn(MobIds, Blocks)

\* a contact between two of the mobs of M
MobCollideMobIn(M) ==
    \E m1 \in M, m2 \in M, d12 \in Dirs, d21 \in Dirs :
        /\ Running
        /\ <<"mob", "mob">> \in handlers
        /\ m1 # m2 /\ mobs[m1].alive /\ mobs[m2].alive
        /\ Become(_handle_mob_collide_mob(
                      Begin([NoEvt EXCEPT !.op = "mob_mob", !.m = m1, !.m2 = m2,
                                          !.d = d12, !.d2 = d21]),
                      m1, m2, d12, d21))

MobCollideMob == MobCollideMobIn(MobIds)

\* a contact of one of the mobs of M with an item
MobCollideItemIn(M) ==
    \E m \in M, i \in items :
        /\ Running
        /\ <<"mob", "item">> \in handlers
        /\ mobs[m].alive
        /\ Become(_handle_mob_collide_item(
                      Begin([NoEvt EXCEPT !.op = "mob_item", !.m = m, !.it = i])))

MobCollideItem == MobCollideItemIn(MobIds)

KeyMove ==
    \E key \in {"d", "Right", "a", "Left"} :
        /\ Running
        /\ Become(_move(Begin([NoEvt EXCEPT !.op = "move"]), key))

KeyJump == Running /\ Become(_jump(Begin([NoEvt EXCEPT !.op = "jump"])))

KeyDuck == Running /\ Become(_duck(Begin([NoEvt EXCEPT !.op = "duck"])))

MenuLoadLevel ==
    \E file \in Levels :
        /\ Running
        /\ Become(load_level(Begin([NoEvt EXCEPT !.op = "load_level"]), file))

\* the 'Highscores' command of the file menu
MenuHighscores ==
    \E fold \in BOOLEAN :
        /\ Running
        /\ Become(highscores(Begin([NoEvt EXCEPT !.op = "highscores"]), fold))

MenuResetLevel ==
    /\ Running
    /\ Become(reset_level(Begin([NoEvt EXCEPT !.op = "reset_level"])))

\* ---------------------------------------------------------- specifications
\* MarioApp.__init__: the configuration names the start level; the world is
\* built from it, the player has max_health and no score
Init ==
    /\ now = 0
    /\ _active = TRUE
    /\ start = 0
    /\ _player_invincible = FALSE
    /\ _start_invincible = -1
    /\ health = max_health
    /\ score = 0
    /\ velocity = <<0, 0>>
    /\ jumping = FALSE
    /\ is_ducking = "unset"
    /\ mobs = FreshMobs
    /\ items = ItemIds
    /\ blocks = Blocks
    /\ current_level \in {"level1.txt", "level2.txt"}
    /\ world_level = current_level
    /\ handlers = HandlerPairs
    /\ files = [f \in {ScoreFile} |-> <<>>]
    /\ app = "running"
    /\ cfg = Started(current_level)
    /\ evt = NoEvt

Next ==
    \/ ClockAdvance
    \/ Tick
    \/ SpawnFireball
    \/ PlayerCollideItem
    \/ PlayerCollideBlock
    \/ PlayerCollideMob
    \/ MobCollideBlock
    \/ MobCollideMob
    \/ MobCollideItem
    \/ KeyMove
    \/ KeyJump
    \/ KeyDuck
    \/ MenuLoadLevel
    \/ MenuResetLevel
    \/ MenuHighscores
    \/ DropCoin

Spec == Init /\ [][Next]_vars

\* the timers: switch and star contacts, the poll, the clock, a level reset
NextTimer ==
    \/ ClockAdvance
    \/ Tick
    \/ PlayerCollideItem
    \/ PlayerCollideSwitch
    \/ MenuResetLevel

SpecTimer == Init /\ [][NextTimer]_vars

\* player against mob: every contact of the player with a mob, and the star
\* that makes the player invincible
NextPlayerMob ==
    \/ SpawnFireball
    \/ PlayerCollideStar
    \/ PlayerCollideMob

SpecPlayerMob == Init /\ [][NextPlayerMob]_vars

\* mob against block and mob against mob
NextMobs ==
    \/ SpawnFireball
    \/ MobCollideBlock
    \/ MobCollideMob

SpecMobs == Init /\ [][NextMobs]_vars

\* the flagpole: its contacts, with the damage and the score it reads and
\* the entities a rebuild discards
NextFlag ==
    \/ PlayerCollideFlagpole
    \/ PlayerCollideCoin
    \/ PlayerCollideMushroom

SpecFlag == Init /\ [][NextFlag]_vars

\* ------------------------------------------------------------------ claims
Sign(x) == IF x > 0 THEN 1 ELSE IF x < 0 THEN -1 ELSE 0

IsSwitchHit(e) == e.op = "player_block" /\ e.blk = "switch"

IsStarPickup(e) == e.op = "player_item" /\ ItemKind[e.it] = "star"

\* C1: a strike from Above on an active switch makes it inactive and stores
\* the time of the strike; a strike from another direction changes neither
\* the flag nor the stored time; an inactive switch keeps its stored time and
\* becomes active again only when at least 10 seconds have passed since the
\* strike; a second strike from Above on an inactive switch changes nothing.
\* (A step that rebuilds the world replaces the switch by a new one and is
\* not a step of the old switch.)
C1_SwitchCooldown ==
    [][ /\ (IsSwitchHit(evt') /\ evt'.d = "A" /\ _active)
            => (_active' = FALSE /\ start' = now')
        /\ (IsSwitchHit(evt') /\ evt'.d # "A")
            => (_active' = _active /\ start' = start)
        /\ (IsSwitchHit(evt') /\ evt'.d = "A" /\ ~_active)
            => (_active' = FALSE /\ start' = start)
        /\ (~_active /\ ~evt'.rebuilt)
            => (start' = start /\ (_active' => now' - start >= 10))
      ]_vars

\* a second strike from Above has just hit a switch pressed earlier
C1_Witness ==
    /\ IsSwitchHit(evt) /\ evt.d = "A"
    /\ ~_active
    /\ start < now

\* C2: the star pickup handler leaves the invincibility flag true and the
\* activation time equal to the time of the pickup, also when the player is
\* invincible already; the flag goes from true to false only in the poll of
\* step(), and only when at least 10 seconds have passed since the stored
\* activation time; nothing but a star pickup changes the activation time.
C2_StarInvincibility ==
    [][ /\ IsStarPickup(evt')
            => (_player_invincible' = TRUE /\ _start_invincible' = now')
        /\ (_player_invincible = TRUE /\ _player_invincible' = FALSE)
            => (evt'.op = "step" /\ now' - _start_invincible >= 10)
        /\ (_start_invincible' # _start_invincible) => IsStarPickup(evt')
      ]_vars

\* a second star has just been picked up while the first one was still active
C2_Witness ==
    /\ IsStarPickup(evt)
    /\ evt.inv = TRUE
    /\ _player_invincible = TRUE
    /\ _start_invincible = now
    /\ now > 0

IsMobHit(e, kind) == e.op = "player_mob" /\ MobKind[e.m] = kind

\* C3: when the player, not invincible, meets a mushroom from the Left or the
\* Right, health goes down by exactly 1, the sign of the mushroom's tempo is
\* the opposite of what it was, and the mushroom moves away from the player:
\* its tempo has the sign opposite to the knock-back given to the player.
\* (A hit that ends in a retry rebuilds the world and is left out.)
C3_LateralHitReverses ==
    [][ ( /\ IsMobHit(evt', "mushroom")
          /\ evt'.d \in Lateral
          /\ _player_invincible = FALSE
          /\ ~evt'.rebuilt )
        => ( /\ evt'.hit = health - 1
             /\ Sign(mobs'[evt'.m].tempo) = -Sign(mobs[evt'.m].tempo)
             /\ Sign(mobs'[evt'.m].tempo) = -Sign(velocity'[1]) )
      ]_vars

C5_RetryAtZero ==
    [][ /\ evt'.asked => (health > 0 /\ evt'.hit = 0)
        /\ (evt'.op = "player_mob" /\ evt'.dmg > 0 /\ evt'.dmg >= health)
            => evt'.asked
        /\ (IsMobHit(evt', "fireball") /\ _player_invincible = FALSE
              /\ health <= FireballDamage) => evt'.asked
        /\ (evt'.asked /\ evt'.ans = "yes") => health' = max_health
        /\ app' = "running" => health' > 0
      ]_vars

\* a fireball has hit a player with 1 or 2 health left, who chose to retry
C5_Witness ==
    /\ IsMobHit(evt, "fireball")
    /\ evt.asked /\ evt.ans = "yes"
    /\ evt.dmg \in {1, 2}
    /\ health = max_health

\* C8: a contact from Above with a mushroom removes the mushroom, sets the
\* player's velocity to the upward impulse (0, -100) and leaves the health
\* as it was, whether or not the player is invincible.
C8_Stomp ==
    [][ (IsMobHit(evt', "mushroom") /\ evt'.d = "A")
        => ( /\ ~mobs'[evt'.m].alive
             /\ velocity' = <<0, -100>>
             /\ health' = health )
      ]_vars

\* an invincible player who was hurt before has just stomped a mushroom
C8_Witness ==
    /\ IsMobHit(evt, "mushroom") /\ evt.d = "A"
    /\ evt.inv = TRUE
    /\ ~mobs[evt.m].alive
    /\ velocity = <<0, -100>>
    /\ health < max_health

IsFlagHit(e) == e.op = "player_block" /\ e.blk = "flagpole"

\* the line the flagpole handler is to write for a name and a score
ScoreLine(name, sc) == name \o "  Score: " \o ToString(sc) \o " \n"

\* the world holds exactly what load_world builds
WorldIsFresh(ms, is, bs) == ms = FreshMobs /\ is = ItemIds /\ bs = Blocks

\* C6: a contact from Above with the flagpole sets the health to max_health,
\* appends exactly one line to the high-score file, made of the name entered
\* and the score the player had when the contact began, and rebuilds the
\* world from the level that is then current, with none of the former
\* entities' changes left.
C6_FlagAdvance ==
    [][ (IsFlagHit(evt') /\ evt'.d = "A")
        => ( /\ health' = max_health
             /\ Len(files'[ScoreFile]) = Len(files[ScoreFile]) + 1
             /\ files'[ScoreFile] =
                    Append(files[ScoreFile], ScoreLine(evt'.name, score))
             /\ evt'.rebuilt
             /\ world_level' = current_level'
             /\ WorldIsFresh(mobs', items', blocks') )
      ]_vars

\* C7 as stated: a flagpole contact from Below, Left or Right restores no
\* health, appends no line and neither advances nor rebuilds the level.
C7_AboveOnly ==
    [][ (IsFlagHit(evt') /\ evt'.d # "A")
        => ( /\ health' = health
             /\ files' = files
             /\ ~evt'.rebuilt
             /\ current_level' = current_level
             /\ world_level' = world_level )
      ]_vars

\* C7 as amended: a flagpole contact from Below, Left or Right restores no
\* health, but the high score and the level change are not tied to the
\* direction: when a name is entered the line is appended, the score reset
\* and the world rebuilt from level2.txt; when the name dialog is cancelled
\* the handler ends in an exception with no line written and no rebuild.
C7_FlagAnyDirection ==
    [][ (IsFlagHit(evt') /\ evt'.d # "A")
        => ( /\ health' = health
             /\ evt'.name # NoName
                => ( /\ files'[ScoreFile] =
                           Append(files[ScoreFile], ScoreLine(evt'.name, score))
                     /\ evt'.rebuilt
                     /\ current_level' = "level2.txt"
                     /\ world_level' = "level2.txt"
                     /\ score' = 0
                     /\ WorldIsFresh(mobs', items', blocks') )
             /\ evt'.name = NoName
                => ( /\ evt'.raised
                     /\ files' = files
                     /\ ~evt'.rebuilt
                     /\ current_level' = current_level ) )
      ]_vars

\* a hurt player with a score has just touched the flagpole from the Left in
\* another level: the line is written, the level is level2.txt, the health
\* is still what it was
C7_Witness ==
    /\ IsFlagHit(evt) /\ evt.d = "L"
    /\ evt.name # NoName
    /\ evt.rebuilt
    /\ Len(files[ScoreFile]) = 1
    /\ files[ScoreFile][1] = ScoreLine(evt.name, 1)
    /\ health < max_health
    /\ current_level = "level2.txt"

IsMobBlock(e) == e.op = "mob_block"

\* C9 as stated: a Left contact of a mob with a block gives the mob the tempo
\* +35, a Right contact gives it -35, a vertical contact leaves the tempo.
C9_LeftGivesPositive ==
    [][ IsMobBlock(evt')
        => ( /\ evt'.d = "L" => mobs'[evt'.m].tempo = BounceTempo
             /\ evt'.d = "R" => mobs'[evt'.m].tempo = -BounceTempo
             /\ evt'.d \notin Lateral
                => mobs'[evt'.m].tempo = mobs[evt'.m].tempo )
      ]_vars

\* C9 as amended: a Left contact of a mob with a block gives the mob the
\* tempo -35 and a Right contact gives it +35, whatever the tempo was (so a
\* repeated contact on the same side changes nothing more); a vertical
\* contact leaves the tempo as it was.
C9_MobBlockTempo ==
    [][ IsMobBlock(evt')
        => ( /\ evt'.d = "L" => mobs'[evt'.m].tempo = -35
             /\ evt'.d = "R" => mobs'[evt'.m].tempo = 35
             /\ evt'.d \notin Lateral
                => mobs'[evt'.m].tempo = mobs[evt'.m].tempo )
      ]_vars

\* a mushroom that moved left has just met a block on its Left side again
C9_Witness ==
    /\ IsMobBlock(evt) /\ evt.d = "L"
    /\ MobKind[evt.m] = "mushroom"
    /\ mobs[evt.m].tempo = -35
    /\ \E m \in MobIds : mobs[m].tempo = 35

IsMushroomMobMob(e) ==
    /\ e.op = "mob_mob"
    /\ (MobKind[e.m] = "mushroom" \/ MobKind[e.m2] = "mushroom")

SideTempo(d, tempo) ==
    IF d = "L" THEN -35 ELSE IF d = "R" THEN 35 ELSE tempo

Alive(ms) == {m \in MobIds : ms[m].alive}

\* C11: every contact of a fireball with a block removes the fireball, and
\* removes the block exactly when the block is a brick; every mob-mob contact
\* with at least one fireball removes both mobs; a contact of a mob that is
\* not a fireball with a block removes no mob, no block and no item. No
\* contact of a mob removes an entity that is not part of the contact.
C11_FireballDestruction ==
    [][ /\ (IsMobBlock(evt') /\ MobKind[evt'.m] = "fireball")
            => ( /\ Alive(mobs') = Alive(mobs) \ {evt'.m}
                 /\ blocks' = (IF evt'.blk = "brick" THEN blocks \ {"brick"}
                               ELSE blocks)
                 /\ items' = items )
        /\ (IsMobBlock(evt') /\ MobKind[evt'.m] # "fireball")
            => ( /\ Alive(mobs') = Alive(mobs)
                 /\ blocks' = blocks
                 /\ items' = items )
        /\ ( /\ evt'.op = "mob_mob"
             /\ (MobKind[evt'.m] = "fireball" \/ MobKind[evt'.m2] = "fireball") )
            => ( /\ Alive(mobs') = Alive(mobs) \ {evt'.m, evt'.m2}
                 /\ blocks' = blocks
                 /\ items' = items )
      ]_vars

\* a fireball has just met a block that is not a brick, after an earlier
\* fireball took the brick: the fireball is gone, the block is still there
C11_Witness ==
    /\ IsMobBlock(evt) /\ MobKind[evt.m] = "fireball"
    /\ evt.blk = "cube"
    /\ ~mobs[evt.m].alive
    /\ "cube" \in blocks
    /\ "brick" \notin blocks

\* contacts of the player with the two goals of a level
PlayerCollideGoal == PlayerCollideBlockIn({"flagpole", "tunnel"})

\* contacts of the player with the second mushroom, and with one star
PlayerCollideSecondMushroom == PlayerCollideMobIn({2})

PlayerCollideOneStar == PlayerCollideItemIn({2})

\* contacts of the fireball with a brick and with another block
FireballCollideBlock == MobCollideBlockIn({3}, {"brick", "cube"})

\* contacts of the second mushroom with the fireball and with the items
MushroomCollideFireball == MobCollideMobIn({2, 3})

MushroomCollideItem == MobCollideItemIn({2})

\* one contact of every pair of categories a handler is registered for
NextContacts ==
    \/ SpawnFireball
    \/ PlayerCollideOneStar
    \/ PlayerCollideGoal
    \/ PlayerCollideSecondMushroom
    \/ FireballCollideBlock
    \/ MushroomCollideFireball
    \/ MushroomCollideItem

SpecContacts == Init /\ [][NextContacts]_vars

Passthrough == {"player_item", "mob_mob", "mob_item"}

Solid == {"player_block", "player_mob", "mob_block"}

\* C12: the begin handler returns False for every player-item, mob-mob and
\* mob-item contact and True for every player-block, player-mob and
\* mob-block contact, whatever the entities, the direction and the outcome
\* (an entity removed, a level rebuilt).
C12_SolidFixed ==
    [][ /\ evt'.op \in Passthrough => evt'.ret = "False"
        /\ evt'.op \in Solid => evt'.ret = "True"
      ]_vars

PlayerCollideTunnel == PlayerCollideBlockIn({"tunnel"})

\* the tunnel: its contacts, the keys that set and clear the ducking state,
\* and the coin whose score a rebuild discards
NextTunnel ==
    \/ KeyMove
    \/ KeyJump
    \/ KeyDuck
    \/ PlayerCollideTunnel
    \/ PlayerCollideCoin

SpecTunnel == Init /\ [][NextTunnel]_vars

IsTunnelHit(e) == e.op = "player_block" /\ e.blk = "tunnel"

\* C13: a contact of the player with the tunnel rebuilds the world from the
\* target level exactly when the contact is from Above and the player is
\* ducking; in every other case, also when no key has been pressed yet, the
\* contact leaves the level and its entities as they were and ends without
\* an exception.
C13_TunnelDuck ==
    [][ IsTunnelHit(evt')
        => ( /\ ~evt'.raised
             /\ evt'.rebuilt <=> (evt'.d = "A" /\ is_ducking = "True")
             /\ evt'.rebuilt => world_level' = GoalLevel
             /\ ~evt'.rebuilt
                => ( /\ world_level' = world_level
                     /\ current_level' = current_level
                     /\ score' = score
                     /\ items' = items ) )
      ]_vars

PlayerCollideBounce == PlayerCollideBlockIn({"bouncyboi"})

\* the bounce block: its contacts and the keys that give the player a velocity
NextBounce ==
    \/ KeyMove
    \/ KeyJump
    \/ KeyDuck
    \/ PlayerCollideBounce

SpecBounce == Init /\ [][NextBounce]_vars

IsBounceHit(e) == e.op = "player_block" /\ e.blk = "bouncyboi"

\* C14: a contact of the player from Above with the bounce block sets the
\* player's velocity to (0, -200) whatever the velocity was; a contact from
\* any other direction leaves the player's velocity as it was.
C14_Bounce ==
    [][ IsBounceHit(evt')
        => ( /\ evt'.d = "A" => velocity' = <<0, -200>>
             /\ evt'.d # "A" => velocity' = velocity )
      ]_vars

\* a player who was falling fast after a duck has just landed on the block
C14_Witness ==
    /\ IsBounceHit(evt) /\ evt.d = "A"
    /\ is_ducking = "True"
    /\ velocity = <<0, -200>>
    /\ jumping = FALSE

\* ------------------------------------------------------------ the start-up
\* read_config_file reads one more line of an arbitrary file
ReadLine ==
    \E l \in Lines :
        /\ cfg.phase = "reading" /\ cfg.file = "any"
        /\ cfg.pos < MaxCfgLines
        /\ Become([Begin([NoEvt EXCEPT !.op = "read_line"])
                      EXCEPT !.cfg = read_line(cfg, l)])

\* read_config_file reads the next line of one of the two written files
ReadFileLine ==
    /\ cfg.phase = "reading" /\ cfg.file # "any"
    /\ cfg.pos < Len(FileLines(cfg))
    /\ Become([Begin([NoEvt EXCEPT !.op = "read_line"])
                  EXCEPT !.cfg = read_line(cfg, FileLines(cfg)[cfg.pos + 1])])

\* the end of the file: read_config_file returns and __init__ goes on
Startup ==
    /\ cfg.phase = "reading"
    /\ cfg.file # "any" => cfg.pos = Len(FileLines(cfg))
    /\ Become(MarioApp_init(Begin([NoEvt EXCEPT !.op = "startup"])))

\* the application is being constructed: the file dialog has returned the
\* name of a file, no world exists yet
InitConfig ==
    /\ now = 0
    /\ _active = TRUE
    /\ start = 0
    /\ _player_invincible = FALSE
    /\ _start_invincible = -1
    /\ health = max_health
    /\ score = 0
    /\ velocity = <<0, 0>>
    /\ jumping = FALSE
    /\ is_ducking = "unset"
    /\ mobs = [m \in MobIds |-> [FreshMobs[m] EXCEPT !.alive = FALSE]]
    /\ items = {}
    /\ blocks = {}
    /\ current_level = "-"
    /\ world_level = "-"
    /\ handlers = {}
    /\ files = [f \in {ScoreFile} |-> <<>>]
    /\ app = "starting"
    /\ cfg \in {NewCfg("any", "-")}
               \cup {NewCfg(f, l) : f \in {"single", "double"},
                                    l \in {"level1.txt", "level2.txt"}}
    /\ evt = NoEvt

NextConfig ==
    \/ ReadLine
    \/ ReadFileLine
    \/ Startup

SpecConfig == InitConfig /\ [][NextConfig]_vars

\* a line without the blanks around it
Core(x) ==
    LET I == {i \in 1..Len(x) : x[i] # " "}
    IN  IF I = {} THEN <<>>
        ELSE SubSeq(x, CHOOSE i \in I : \A j \in I : i <= j,
                       CHOOSE i \in I : \A j \in I : i >= j)

\* a line of the form =SectionName=
IsSectionHeader(l) == Len(l) >= 2 /\ l[1] = "=" /\ l[Len(l)] = "="

HasOneColon(l) == Cardinality({i \in 1..Len(l) : l[i] = ":"}) = 1

IsReadLine(e) == e.op = "read_line"

\* C15: a line that is not a section header and does not hold exactly one
\* ':', and a 'key: value' line met before any section header, adds, changes
\* and removes no entry of the configuration and raises no error; a
\* 'key: value' line under a header is stored under that header, key and
\* value without the blanks around them, and changes no other entry.
C15_SkipMalformed ==
    [][ IsReadLine(evt')
        => LET l == Core(cfg'.line)
               i == CHOOSE j \in 1..Len(l) : l[j] = ":"
           IN  /\ ~evt'.raised
               /\ (~IsSectionHeader(l) /\ ~HasOneColon(l))
                   => cfg'.config = cfg.config
               /\ (~IsSectionHeader(l) /\ cfg.heading = NoHeading)
                   => cfg'.config = cfg.config
               /\ (~IsSectionHeader(l) /\ HasOneColon(l)
                     /\ cfg.heading # NoHeading)
                   => ( /\ DOMAIN cfg'.config = DOMAIN cfg.config
                        /\ \A h \in DOMAIN cfg.config \ {cfg.heading} :
                               cfg'.config[h] = cfg.config[h]
                        /\ cfg'.config[cfg.heading] =
                               Put(cfg.config[cfg.heading],
                                   Core(SubSeq(l, 1, i - 1)),
                                   Core(SubSeq(l, i + 1, Len(l)))) )
      ]_vars

IsStartup(e) == e.op = "startup"

\* the values written in the configuration file of level lv
Written(lv) ==
    [gravity |-> <<"400">>, start |-> <<lv>>, character |-> <<"mario">>,
     x |-> <<"30">>, y |-> <<"30">>]

\* C16 as stated: for a file with a =World= header followed by gravity and
\* start lines and a =Player= header followed by the player's attributes,
\* the start-up obtains the gravity, the start level and the attributes
\* written in the file.
C16_DocumentedFormat ==
    [][ (IsStartup(evt') /\ cfg.file = "single")
        => ( /\ ~evt'.raised
             /\ cfg'.got = Written(cfg.level)
             /\ current_level' = cfg.level )
      ]_vars

\* C16 as amended: read_config_file stores the entries of a header under the
\* header line without its first and its last character, and __init__ looks
\* up '=World=' and '=Player='. So for a file whose headers are written
\* ==World== and ==Player== the start-up obtains the gravity, the start
\* level and the attributes written in the file and builds the world from
\* that level; for a file whose headers are written =World= and =Player= the
\* entries are stored under 'World' and 'Player' and the start-up ends in a
\* KeyError with no world built.
C16_DoubledHeaders ==
    [][ IsStartup(evt')
        => ( /\ cfg.file = "double"
                => ( /\ ~evt'.raised
                     /\ DOMAIN cfg.config = {<<"=", "World", "=">>,
                                             <<"=", "Player", "=">>}
                     /\ cfg'.got = Written(cfg.level)
                     /\ current_level' = cfg.level
                     /\ world_level' = cfg.level
                     /\ app' = "running" )
             /\ cfg.file = "single"
                => ( /\ evt'.raised
                     /\ DOMAIN cfg.config = {<<"World">>, <<"Player">>}
                     /\ cfg.config[<<"World">>][<<"start">>] = <<cfg.level>>
                     /\ cfg'.got = NoGot
                     /\ app' = "starting" ) )
      ]_vars

\* the application has just started from a file with doubled headers that
\* names the second level
C16_Witness ==
    /\ IsStartup(evt)
    /\ cfg.file = "double" /\ cfg.level = "level2.txt"
    /\ cfg.phase = "started"
    /\ cfg.got.start = <<"level2.txt">>
    /\ current_level = "level2.txt"
    /\ app = "running"

\* C17: a strike from Above on an active switch removes the bricks around
\* the switch from the world, and they stay out of the world for as long as
\* the switch is inactive.
C17_SwitchRemovesBricks ==
    [][ /\ (IsSwitchHit(evt') /\ evt'.d = "A" /\ _active)
            => "brick" \notin blocks'
        /\ ~_active' => "brick" \notin blocks'
      ]_vars

\* the score: coins dropped and collected, and the ways a world is rebuilt
NextScore ==
    \/ DropCoin
    \/ PlayerCollideCoin
    \/ MenuResetLevel
    \/ MenuLoadLevel
    \/ KeyDuck
    \/ PlayerCollideGoal

SpecScore == Init /\ [][NextScore]_vars

\* the callbacks that rebuild the world: a level reset (from the menu or
\* after a retry), a level load, and the two level transitions; duck is the
\* ducking state when the callback began
IsRebuild(e, duck) ==
    \/ e.op \in {"reset_level", "load_level"}
    \/ e.asked /\ e.ans = "yes"
    \/ IsFlagHit(e) /\ e.name # NoName
    \/ IsTunnelHit(e) /\ e.d = "A" /\ duck = "True"

\* C18: the score is a natural number; a step lowers it only by setting it
\* to 0 in a callback that rebuilds the world (level reset, level load,
\* level transition), and every such callback leaves the score at 0.
C18_ScoreMonotone ==
    [][ /\ score' \in Nat
        /\ score' < score => (score' = 0 /\ IsRebuild(evt', is_ducking))
        /\ IsRebuild(evt', is_ducking) => score' = 0
      ]_vars

\* a player with a score of 2 has just touched the flagpole: the line with
\* the score is written and the score is 0 again
C18_Witness ==
    /\ IsFlagHit(evt) /\ evt.name # NoName
    /\ Len(files[ScoreFile]) >= 1
    /\ files[ScoreFile][Len(files[ScoreFile])] = ScoreLine(evt.name, 2)
    /\ score = 0

\* the high scores: level completions with the scores they record, and the
\* window that shows them
NextHighscores ==
    \/ DropCoin
    \/ PlayerCollideCoin
    \/ PlayerCollideFlagpole
    \/ MenuHighscores

SpecHighscores == Init /\ [][NextHighscores]_vars

IsView(e) == e.op = "highscores"

IsPrefix(a, b) == Len(a) <= Len(b) /\ SubSeq(b, 1, Len(a)) = a

\* C19: the 'Highscores' command shows exactly the lines the flagpole
\* handler has appended so far, in the order they were appended, and opens
\* without an error; an append leaves every earlier line as it was.
C19_ViewShowsRecorded ==
    [][ /\ IsView(evt')
            => (~evt'.raised /\ evt'.shown = files[ScoreFile])
        /\ IsFlagHit(evt') => IsPrefix(files[ScoreFile], files'[ScoreFile])
      ]_vars

\* a contact with the switch early enough for the clock of the model to
\* reach the end of the cooldown
PlayerCollideSwitchInTime ==
    /\ now + SwitchCooldown <= MaxTime
    /\ PlayerCollideSwitch

NextSwitchLive ==
    \/ ClockAdvance
    \/ Tick
    \/ PlayerCollideSwitchInTime

\* step() reschedules itself every 10 ms (line 561) and time.time() goes on:
\* neither the tick nor the clock can be put off for ever
SpecSwitchLive ==
    /\ Init
    /\ [][NextSwitchLive]_vars
    /\ WF_vars(Tick)
    /\ WF_vars(ClockAdvance)

\* C20: with ticks and the clock going on, a switch that is inactive is
\* active again later; and it is the first tick that polls 10 seconds or more
\* after the strike that makes it active, no later one.
C20_SwitchLive ==
    /\ (~_active) ~> _active
    /\ [][ (evt'.op = "step" /\ ~_active /\ now' - start >= 10) => _active'
         ]_vars

\* a tick has just made active a switch that was struck earlier, the clock
\* having jumped past the tenth second
C20_Witness ==
    /\ evt.op = "step"
    /\ _active
    /\ start > 0
    /\ now - start > 10

\* the callbacks pymunk runs from inside World.step, while the dispatcher
\* is still going through the contacts of the tick
ContactOps ==
    {"player_item", "player_block", "player_mob", "mob_block", "mob_mob",
     "mob_item"}

\* C21: a tick runs the physics step and its contact handlers first and
\* takes the retry decision and rebuilds the world only afterwards: no
\* contact handler shows the retry dialog, and none rebuilds the world
\* (retry reset, flag advance, tunnel transition) before it returns.
C21_RebuildAfterHandlers ==
    [][ evt'.op \in ContactOps => (~evt'.asked /\ ~evt'.rebuilt) ]_vars

\* C22: no handler operates on an entity it has removed from the world: a
\* removed mob or block is not removed again, is not passed to
\* get_collision_direction and is not given a tempo, whatever the kinds of
\* the entities, the direction of the contact and the invincibility.
C22_NoUseAfterRemoval == evt.late = FALSE

PlayerCollideGround == PlayerCollideBlockIn({"cube", "bouncyboi"})

\* jumping: the keys, the blocks the player lands on, a level reset
NextJump ==
    \/ KeyJump
    \/ KeyMove
    \/ KeyDuck
    \/ PlayerCollideGround
    \/ MenuResetLevel

SpecJump == Init /\ [][NextJump]_vars

\* C24: a jump command sets the velocity to (0, -210) and the jumping flag
\* when the flag is false, and changes neither when the flag is true; the
\* flag is set by nothing but a jump command and cleared by nothing but a
\* contact of the player with a block from Above. So after a jump that took
\* effect no other jump takes effect before such a landing.
C24_NoDoubleJump ==
    [][ /\ evt'.op = "jump"
            => IF jumping = FALSE
               THEN velocity' = <<0, -210>> /\ jumping' = TRUE
               ELSE velocity' = velocity /\ jumping' = TRUE
        /\ (jumping = FALSE /\ jumping' = TRUE) => evt'.op = "jump"
        /\ (jumping = TRUE /\ jumping' = FALSE)
            => (evt'.op = "player_block" /\ evt'.d = "A")
        /\ (evt'.op = "player_block" /\ evt'.d = "A" /\ ~evt'.raised)
            => jumping' = FALSE
      ]_vars

\* a jump command has taken effect: the player, who had pressed a key
\* before, is in the air with the velocity of the jump
C24_Witness ==
    /\ evt.op = "jump"
    /\ jumping = TRUE
    /\ velocity = <<0, -210>>
    /\ is_ducking = "False"

\* C25: current_level names the level file the present world was built
\* from, so that a level reset or a retry rebuilds the level being played.
C25_CurrentLevelNamesWorld == world_level = current_level

\* the clock read every half window of the star
ClockAdvanceHalfWindow == ClockAdvanceBy({InvincibleWindow \div 2})

\* rebuilds and the star: the star pickup, the clock and the poll, and every
\* callback that rebuilds the world without the player dying
NextRebuild ==
    \/ ClockAdvanceHalfWindow
    \/ Tick
    \/ PlayerCollideOneStar
    \/ KeyDuck
    \/ PlayerCollideGoal
    \/ MenuResetLevel
    \/ MenuLoadLevel

SpecRebuild == Init /\ [][NextRebuild]_vars

\* C26: a callback that rebuilds the world leaves the invincibility flag
\* and its activation time as they were, so a player who is invincible
\* before a rebuild is invincible after it; the flag goes from true to
\* false in the poll of step() only, at least 10 seconds after the
\* activation time, which is the time of the last star pickup.
C26_RebuildKeepsInvincibility ==
    [][ /\ evt'.rebuilt
            => ( /\ _player_invincible' = _player_invincible
                 /\ _start_invincible' = _start_invincible )
        /\ (_player_invincible = TRUE /\ _player_invincible' = FALSE)
            => ( /\ evt'.op = "step"
                 /\ ~evt'.rebuilt
                 /\ now' - _start_invincible >= InvincibleWindow )
        /\ (_start_invincible' # _start_invincible)
            => (IsStarPickup(evt') /\ _start_invincible' = now')
      ]_vars

\* the world has been rebuilt around an invincible player, some seconds
\* after the star was picked up: the player is still invincible
C26_Witness ==
    /\ evt.rebuilt
    /\ evt.inv = TRUE
    /\ _player_invincible = TRUE
    /\ _start_invincible >= 0
    /\ now > _start_invincible
====
